---- MODULE Spec2Model ----
(***************************************************************************)
(* A model of the portfolio dashboard backend:                             *)
(*   - the market-data gateway of app/utils/yfinance_helper.py (global     *)
(*     delay, quote cache, retry wrapper, historical fallback ladder);     *)
(*   - the ledger handlers of app/routes/transactions.py (BUY, SELL) over  *)
(*     a store with commit / rollback;                                     *)
(*   - the performance reconstruction of                                   *)
(*     app/services/portfolioPerformance.py.                               *)
(* Time is counted in whole seconds, and a random sleep lasts a whole      *)
(* number of seconds inside the code's range.  Prices are whole numbers;   *)
(* Python's None is NoneVal.                                               *)
(***************************************************************************)
EXTENDS Integers, Sequences, FiniteSets, TLC

VARIABLES
    now,                  \* time.time()
    last_api_call_time,   \* yfinance_helper._last_api_call_time
    stock_info_cache,     \* yfinance_helper._stock_info_cache
    th,                   \* per request thread: position and locals
    nreq,                 \* requests started so far
    lastOut,              \* history: seconds since the latest outbound
                          \* provider call, counted up to the minimum gap
    outGap,               \* history: seconds between the two latest outbound
                          \* calls, counted up to the minimum gap
    lastQuote,            \* history: per symbol, the latest getQuote call
                          \* that has returned
    db,                   \* the persisted rows: stocks, holdings, portfolio,
                          \* transactions
    rq,                   \* per ledger request: position, locals, its
                          \* session's rows, and the rows persisted when it
                          \* started
    nops,                 \* ledger requests started so far
    clock,                \* datetime.now() / datetime.utcnow(), in slots of
                          \* a day
    perf,                 \* the performance request: its response, and the
                          \* daily series before the resampling
    utc_ahead             \* what datetime.utcnow() is ahead of
                          \* datetime.now() on the server, in slots

gwVars == <<now, last_api_call_time, stock_info_cache, th, nreq, lastOut,
            outGap, lastQuote>>

ledgerVars == <<db, rq, nops>>

perfVars == <<clock, perf, utc_ahead>>

vars == <<gwVars, ledgerVars, perfVars>>

-----------------------------------------------------------------------------
(* Bounds of the model *)

StartTime == 8
Horizon == 8
PauseSlack == 2
MaxRequests == 2
RecursionLimit == 3       \* frames Python allows before RecursionError

-----------------------------------------------------------------------------
(* Constants of yfinance_helper.py *)

MIN_SECONDS_BETWEEN_CALLS == 3
CACHE_TIMEOUT_SECONDS == 300
MAX_RETRIES == 3
BASE_DELAY == 5

NoneVal == -1

Threads == {1, 2}
Symbols == {"AAPL", "ZZZZ"}
SymbolLists == {<<"AAPL">>, <<"ZZZZ">>, <<"AAPL", "ZZZZ">>}

Min(a, b) == IF a <= b THEN a ELSE b
Max(a, b) == IF a >= b THEN a ELSE b

RECURSIVE Pow2(_)
Pow2(n) == IF n = 0 THEN 1 ELSE 2 * Pow2(n - 1)

(* random.uniform(0.5, 1.5), line 212; random.uniform(1, 2), line 82;
   random.uniform(1, 3), line 43 *)
QuoteJitter == {1}
IndividualJitter == {1, 2}
RetryJitter == {1, 2, 3}

-----------------------------------------------------------------------------
(* Period strings, as sequences of characters *)

P_1d == <<"1", "d">>
P_2d == <<"2", "d">>
P_5d == <<"5", "d">>
P_1wk == <<"1", "w", "k">>
P_1mo == <<"1", "m", "o">>
P_1y == <<"1", "y">>
Periods == {P_1d, P_2d, P_1mo, P_1y}

Digits == <<"0", "1", "2", "3", "4", "5", "6", "7", "8", "9">>
IsDigit(c) == \E k \in 1..10 : Digits[k] = c
DigitVal(c) == (CHOOSE k \in 1..10 : Digits[k] = c) - 1

StartsWith(s, p) == Len(s) >= Len(p) /\ SubSeq(s, 1, Len(p)) = p

(* str.replace(old, new): every non-overlapping occurrence, left to right *)
RECURSIVE Replace(_, _, _)
Replace(s, old, new) ==
    IF s = <<>> THEN <<>>
    ELSE IF StartsWith(s, old)
         THEN new \o Replace(SubSeq(s, Len(old) + 1, Len(s)), old, new)
         ELSE <<Head(s)>> \o Replace(Tail(s), old, new)

(* int(s) succeeds on a non-empty string of decimal digits *)
IntParses(s) == s # <<>> /\ \A k \in 1..Len(s) : IsDigit(s[k])

RECURSIVE IntOf(_)
IntOf(s) == IF s = <<>> THEN 0
            ELSE IntOf(SubSeq(s, 1, Len(s) - 1)) * 10 + DigitVal(s[Len(s)])

-----------------------------------------------------------------------------
(* Values *)

NoResult == [kind |-> "noresult"]
NoneResult == [kind |-> "none"]
Raised(e) == [kind |-> "raise", exc |-> e]
NoEntry == [kind |-> "absent"]

(* no answer of ticker.info yet *)
NoInfo == [kind |-> "noinfo", currentPrice |-> NoneVal,
           regularMarketPrice |-> NoneVal, previousClose |-> NoneVal]

IdleThread ==
    [pc |-> "idle", fn |-> "none", symbols |-> <<>>, period |-> <<>>,
     retry_count |-> 0, wake |-> 0, cont |-> "idle", result |-> NoResult,
     ncalls |-> 0, saw429 |-> FALSE, i |-> 0, strat |-> 0, all_data |-> {},
     attempts |-> <<>>, start |-> 0, prior |-> NoResult, info |-> NoInfo,
     found |-> NoneVal, depth |-> 0, downloads |-> <<>>]

(* What ticker.info gives: an exception, rate limit or other, or the fields,
   each absent (None), zero or a price *)
QuoteOutcomes ==
    [kind : {"exc429", "exc"}, currentPrice : {NoneVal},
     regularMarketPrice : {NoneVal}, previousClose : {NoneVal}]
    \cup [kind : {"info"}, currentPrice : {NoneVal, 0, 110},
          regularMarketPrice : {NoneVal, 100}, previousClose : {NoneVal, 0, 90}]

(* What yf.download gives: an exception, an empty table, a table without
   usable Close prices, a table with them *)
DownloadOutcomes == {"raise", "empty", "noclose", "data"}

-----------------------------------------------------------------------------
(* enforce_global_delay *)

(* lines 15-18: how long to sleep, 0 for no sleep *)
SleepTime(current_time, last) ==
    IF current_time - last < MIN_SECONDS_BETWEEN_CALLS
    THEN MIN_SECONDS_BETWEEN_CALLS - (current_time - last)
    ELSE 0

-----------------------------------------------------------------------------
(* fetch_stock_info *)

Truthy(x) == x # NoneVal /\ x # 0
PyOr(a, b) == IF Truthy(a) THEN a ELSE b

(* line 204 with its comparison turned round *)
CacheFreshInverted(entry, t) == t - entry.timestamp > CACHE_TIMEOUT_SECONDS

(* line 204 with <= in the place of < *)
CacheFreshInclusive(entry, t) == t - entry.timestamp <= CACHE_TIMEOUT_SECONDS

(* line 204 *)
CacheFresh(entry, t) == t - entry.timestamp < CACHE_TIMEOUT_SECONDS

(* lines 218-220 *)
CurrentPrice(info) ==
    PyOr(info.currentPrice, PyOr(info.regularMarketPrice, info.previousClose))

(* n / d rounded to the nearest integer, ties to even; d > 0 *)
RoundHalfEven(n, d) ==
    LET a == IF n < 0 THEN -n ELSE n
        q == a \div d
        r == a % d
        m == IF 2 * r > d \/ (2 * r = d /\ q % 2 = 1) THEN q + 1 ELSE q
    IN IF n < 0 THEN -m ELSE m

(* lines 225-228 and 240 with the current price as the divisor *)
ChangePercentOfCurrent(current_price, prev_close) ==
    IF Truthy(current_price) /\ Truthy(prev_close) /\ prev_close # 0
    THEN RoundHalfEven((current_price - prev_close) * 10000, current_price)
    ELSE 0

(* lines 225-228 and 240: change_percent rounded to 2 decimals, here in
   hundredths of a percent *)
ChangePercent(current_price, prev_close) ==
    IF Truthy(current_price) /\ Truthy(prev_close) /\ prev_close # 0
    THEN RoundHalfEven((current_price - prev_close) * 10000, prev_close)
    ELSE 0

(* lines 235-243 with the provider's currentPrice as the price *)
QuoteDataRawPrice(symbol, info) ==
    [kind |-> "quote", symbol |-> symbol,
     current_price |-> info.currentPrice,
     previous_close |-> info.previousClose,
     change_percent |-> ChangePercent(CurrentPrice(info), info.previousClose)]

(* lines 235-243 *)
QuoteData(symbol, info) ==
    [kind |-> "quote", symbol |-> symbol,
     current_price |-> CurrentPrice(info),
     previous_close |-> info.previousClose,
     change_percent |-> ChangePercent(CurrentPrice(info), info.previousClose)]

(* line 251 with an except clause for the rate limit alone *)
FuncCatchesRateLimit(kind) == kind = "exc429"

(* line 251: except Exception catches whatever the body raises *)
FuncCatches(kind) == kind \in {"exc429", "exc"}

(* lines 38-47 with the exception raised one failure later *)
WrapperExceptOneMore(r, kind, d) ==
    IF kind = "exc429"
    THEN IF r.retry_count + 1 = MAX_RETRIES + 1
         THEN [r EXCEPT !.retry_count = r.retry_count + 1,
                        !.pc = "done", !.result = Raised("429")]
         ELSE [r EXCEPT !.retry_count = r.retry_count + 1,
                        !.pc = "sleep", !.cont = "q_func",
                        !.wake = now + BASE_DELAY * Pow2(r.retry_count + 1)
                                     + d]
    ELSE [r EXCEPT !.pc = "done", !.result = Raised("error")]

(* retry_with_backoff, lines 38-47: the wrapper's handling of an exception
   that leaves the wrapped function; d is the jitter of line 43 *)
WrapperExcept(r, kind, d) ==
    IF kind = "exc429"
    THEN IF r.retry_count + 1 = MAX_RETRIES
         THEN [r EXCEPT !.retry_count = r.retry_count + 1,
                        !.pc = "done", !.result = Raised("429")]
         ELSE [r EXCEPT !.retry_count = r.retry_count + 1,
                        !.pc = "sleep", !.cont = "q_func",
                        !.wake = now + BASE_DELAY * Pow2(r.retry_count + 1)
                                     + d]
    ELSE [r EXCEPT !.pc = "done", !.result = Raised("error")]

(* The history's record of a getQuote call that returns *)
QuoteReturned(r) ==
    [kind |-> "returned", start |-> r.start, result |-> r.result,
     ncalls |-> r.ncalls]

(* An outbound call to the provider is made now *)
LogOutbound ==
    /\ lastOut' = 0
    /\ outGap' = lastOut

-----------------------------------------------------------------------------
(* A long pause between requests lasts PauseSlack seconds less than the
   cache's time to live *)
LongPauseSeconds == CACHE_TIMEOUT_SECONDS - PauseSlack

(* The clock.  A step of code takes no time and a sleep ends on time: time
   passes, second by second, while every thread sleeps or waits for a
   request. *)
Tick ==
    /\ \A t \in Threads : \/ th[t].pc = "idle"
                          \/ th[t].pc = "sleep" /\ now < th[t].wake
    /\ (now - StartTime) % LongPauseSeconds < Horizon
    /\ now' = now + 1
    /\ lastOut' = Min(lastOut + 1, MIN_SECONDS_BETWEEN_CALLS)
    /\ UNCHANGED <<last_api_call_time, stock_info_cache, th, nreq, outGap,
                   lastQuote>>

(* A long pause between requests, once *)
LongPause ==
    /\ \A t \in Threads : th[t].pc = "idle"
    /\ now - StartTime < LongPauseSeconds
    /\ now' = now + LongPauseSeconds
    /\ lastOut' = MIN_SECONDS_BETWEEN_CALLS
    /\ UNCHANGED <<last_api_call_time, stock_info_cache, th, nreq, outGap,
                   lastQuote>>

(* time.sleep returns once the time asked for has passed *)
Wake(t) ==
    /\ th[t].pc = "sleep"
    /\ now >= th[t].wake
    /\ th' = [th EXCEPT ![t].pc = th[t].cont]
    /\ UNCHANGED <<now, last_api_call_time, stock_info_cache, nreq, lastOut,
                   outGap, lastQuote>>

(* enforce_global_delay, lines 15-20: read the clock and the last call time,
   sleep if the last call is too recent *)
EnforceRead(t) ==
    /\ th[t].pc = "g_read"
    /\ LET s == SleepTime(now, last_api_call_time)
       IN th' = IF s > 0
                THEN [th EXCEPT ![t].pc = "sleep", ![t].cont = "g_set",
                                ![t].wake = now + s]
                ELSE [th EXCEPT ![t].pc = "g_set"]
    /\ UNCHANGED <<now, last_api_call_time, stock_info_cache, nreq, lastOut,
                   outGap, lastQuote>>

(* enforce_global_delay, line 21, and the return to the caller:
   fetch_stock_info sleeps random.uniform(0.5, 1.5) (line 212),
   fetch_historical_data_with_fallbacks goes on to strategy 1 *)
EnforceSet(t) ==
    /\ th[t].pc = "g_set"
    /\ last_api_call_time' = now
    /\ \E d \in QuoteJitter :
          th' = IF th[t].fn = "quote"
                THEN [th EXCEPT ![t].pc = "sleep", ![t].cont = "q_call",
                                ![t].wake = now + d]
                ELSE [th EXCEPT ![t].pc = "h_s1"]
    /\ UNCHANGED <<now, stock_info_cache, nreq, lastOut, outGap,
                   lastQuote>>

-----------------------------------------------------------------------------
(* getQuote: fetch_stock_info under retry_with_backoff *)

(* wrapper, lines 33-35 *)
QuoteStart(t, sym) ==
    /\ th[t].pc = "idle"
    /\ \A u \in Threads : u < t => th[u].pc # "idle"
    /\ nreq < MaxRequests
    /\ nreq' = nreq + 1
    /\ th' = [th EXCEPT ![t] = [IdleThread EXCEPT !.pc = "q_func",
                                   !.fn = "quote", !.symbols = <<sym>>]]
    /\ UNCHANGED <<now, last_api_call_time, stock_info_cache, lastOut, outGap,
                   lastQuote>>

(* fetch_stock_info, lines 203-209: the cache check *)
QuoteFunc(t) ==
    /\ th[t].pc = "q_func"
    /\ LET sym == th[t].symbols[1]
           cached_data == stock_info_cache[sym]
           r0 == IF th[t].retry_count = 0
                 THEN [th[t] EXCEPT !.start = now, !.prior = lastQuote[sym]]
                 ELSE th[t]
           r == [r0 EXCEPT !.found = IF cached_data.kind = "entry"
                                     THEN cached_data.timestamp
                                     ELSE NoneVal]
       IN IF cached_data.kind = "entry" /\ CacheFresh(cached_data, now)
          THEN LET r2 == [r EXCEPT !.pc = "done", !.result = cached_data.data]
               IN /\ th' = [th EXCEPT ![t] = r2]
                  /\ lastQuote' = [lastQuote EXCEPT ![sym] = QuoteReturned(r2)]
          ELSE /\ th' = [th EXCEPT ![t] = [r EXCEPT !.pc = "g_read"]]
               /\ UNCHANGED lastQuote
    /\ UNCHANGED <<now, last_api_call_time, stock_info_cache, nreq, lastOut,
                   outGap>>

(* lines 245-249 before the validation of lines 230-233 *)
CacheStoreUnvalidated(cache, sym, o, timestamp) ==
    IF o.kind = "info"
    THEN [cache EXCEPT ![sym] = [kind |-> "entry", data |-> QuoteData(sym, o),
                                 timestamp |-> timestamp]]
    ELSE cache

(* lines 245-249, reached when the provider answered (line 215) with a
   usable price (lines 230-233) *)
CacheStore(cache, sym, o, timestamp) ==
    IF o.kind = "info" /\ Truthy(CurrentPrice(o))
    THEN [cache EXCEPT ![sym] = [kind |-> "entry", data |-> QuoteData(sym, o),
                                 timestamp |-> timestamp]]
    ELSE cache

(* fetch_stock_info, lines 214-253: the provider call and what follows *)
QuoteCall(t) ==
    /\ th[t].pc = "q_call"
    /\ LogOutbound
    /\ \E o \in QuoteOutcomes :
       \E d \in IF o.kind = "info" \/ FuncCatches(o.kind) THEN {1}
                ELSE RetryJitter :
          LET sym == th[t].symbols[1]
              r == [th[t] EXCEPT !.ncalls = th[t].ncalls + 1,
                                 !.saw429 = th[t].saw429 \/ o.kind = "exc429",
                                 !.info = o]
              r2 == IF o.kind = "info"
                    THEN IF Truthy(CurrentPrice(o))
                         THEN [r EXCEPT !.pc = "done",
                                        !.result = QuoteData(sym, o)]
                         ELSE [r EXCEPT !.pc = "done", !.result = NoneResult]
                    ELSE IF FuncCatches(o.kind)
                         THEN [r EXCEPT !.pc = "done", !.result = NoneResult]
                         ELSE WrapperExcept(r, o.kind, d)
          IN /\ th' = [th EXCEPT ![t] = r2]
             /\ stock_info_cache' = CacheStore(stock_info_cache, sym, o, now)
             /\ lastQuote' = IF r2.pc = "done"
                             THEN [lastQuote EXCEPT ![sym] = QuoteReturned(r2)]
                             ELSE lastQuote
    /\ UNCHANGED <<now, last_api_call_time, nreq>>

(* The caller has the result; the thread takes the next request *)
Return(t) ==
    /\ th[t].pc = "done"
    /\ th' = [th EXCEPT ![t] = IdleThread]
    /\ UNCHANGED <<now, last_api_call_time, stock_info_cache, nreq, lastOut,
                   outGap, lastQuote>>

-----------------------------------------------------------------------------
(* retry_with_backoff over any function *)

(* What a call of the wrapped function does: it returns, or it raises an
   exception whose text has '429' or has not *)
WrappedOutcomes == {"return", "exc429", "exc"}

WrappedValue == [kind |-> "value"]

(* lines 33-35: the wrapper is called *)
WrappedStart(t) ==
    /\ th[t].pc = "idle"
    /\ \A u \in Threads : u < t => th[u].pc # "idle"
    /\ nreq < MaxRequests
    /\ nreq' = nreq + 1
    /\ th' = [th EXCEPT ![t] = [IdleThread EXCEPT !.pc = "w_call",
                                   !.fn = "wrapped", !.start = now]]
    /\ UNCHANGED <<now, last_api_call_time, stock_info_cache, lastOut, outGap,
                   lastQuote>>

(* lines 35-47: a call of the wrapped function and what the wrapper does
   with its outcome *)
WrappedCall(t) ==
    /\ th[t].pc = "w_call"
    /\ \E o \in WrappedOutcomes, d \in RetryJitter :
          LET r == [th[t] EXCEPT !.ncalls = th[t].ncalls + 1,
                                 !.info = [NoInfo EXCEPT !.kind = o],
                                 !.found = now]
          IN th' = [th EXCEPT ![t] =
                IF o = "return"
                THEN [r EXCEPT !.pc = "done", !.result = WrappedValue]
                ELSE [WrapperExcept(r, o, d) EXCEPT !.cont = "w_call"]]
    /\ UNCHANGED <<now, last_api_call_time, stock_info_cache, nreq, lastOut,
                   outGap, lastQuote>>

(* line 45: time.sleep(delay) lasts delay seconds, while nothing else is to
   run *)
SleepThrough(t) ==
    /\ th[t].pc = "sleep"
    /\ now < th[t].wake
    /\ \A u \in Threads : \/ th[u].pc = "idle"
                          \/ th[u].pc = "sleep" /\ th[u].wake >= th[t].wake
    /\ now' = th[t].wake
    /\ lastOut' = Min(lastOut + (th[t].wake - now), MIN_SECONDS_BETWEEN_CALLS)
    /\ UNCHANGED <<last_api_call_time, stock_info_cache, th, nreq, outGap,
                   lastQuote>>

-----------------------------------------------------------------------------
(* POST /status/reset *)

(* What routes.py binds the global name reset_api_status to, in the order
   the module runs: the import on line 4, then the def on line 213 *)
RoutesBindings == <<"helper", "route">>

(* line 215: a global name is looked up when the call runs *)
ResetCallee == RoutesBindings[Len(RoutesBindings)]

ResetMessage == [kind |-> "message",
                 message |-> "API status reset successfully"]

(* routes.py, lines 212-213: the request enters the route *)
ResetStart(t) ==
    /\ th[t].pc = "idle"
    /\ \A u \in Threads : u < t => th[u].pc # "idle"
    /\ nreq < MaxRequests
    /\ nreq' = nreq + 1
    /\ th' = [th EXCEPT ![t] = [IdleThread EXCEPT !.pc = "reset_route",
                                   !.fn = "reset", !.depth = 1]]
    /\ UNCHANGED <<now, last_api_call_time, stock_info_cache, lastOut, outGap,
                   lastQuote>>

(* routes.py, lines 215-216: the call of reset_api_status().  The helper of
   yfinance_helper.py, lines 321-326, clears the timer and the cache; the
   route is one more frame of itself, until Python raises RecursionError. *)
ResetRoute(t) ==
    /\ th[t].pc = "reset_route"
    /\ IF ResetCallee = "helper"
       THEN /\ last_api_call_time' = 0
            /\ stock_info_cache' = [s \in Symbols |-> NoEntry]
            /\ th' = [th EXCEPT ![t].pc = "done", ![t].result = ResetMessage]
       ELSE /\ th' = IF th[t].depth < RecursionLimit
                     THEN [th EXCEPT ![t].depth = th[t].depth + 1]
                     ELSE [th EXCEPT ![t].pc = "done",
                                     ![t].result = Raised("RecursionError")]
            /\ UNCHANGED <<last_api_call_time, stock_info_cache>>
    /\ UNCHANGED <<now, nreq, lastOut, outGap, lastQuote>>

-----------------------------------------------------------------------------
(* getHistoricalSeries: fetch_historical_data_with_fallbacks *)

SeqToSet(s) == {s[k] : k \in 1..Len(s)}

Table(strategy, period, columns, rows) ==
    [kind |-> "table", strategy |-> strategy, period |-> period,
     columns |-> columns, rows |-> rows]

(* The history of one strategy's attempt: what the provider gave it, for the
   per-symbol strategies whether the merged table has a column ("data") or
   none ("empty"), "pending" until known *)
Attempt(strategy, period, outcome) ==
    [strategy |-> strategy, period |-> period, outcome |-> outcome]

(* line 167 without its test for the Close column *)
BatchOkAnyTable(o) == o \in {"noclose", "data"}

(* line 167 *)
BatchOk(o) == o = "data"

(* try_alternative_yahoo_endpoint, lines 57-62 *)
AltPeriod(period) ==
    IF period = P_1d THEN P_5d
    ELSE IF period = P_2d THEN P_1wk
    ELSE P_1mo

(* try_alternative_yahoo_endpoint, lines 64-71, and line 175 *)
AltOk(o) == o \in {"noclose", "data"}

(* try_individual_downloads, lines 84-86 without the tests for Close *)
IndividualOkAnyTable(o) == o \in {"noclose", "data"}

(* try_individual_downloads, lines 84-86 *)
IndividualOk(o) == o = "data"

(* line 184 *)
TryFallbackPeriod(period) == period # P_1mo

(* generate_mock_data, line 139: the argument of int() *)
MockPointsText(period) ==
    Replace(Replace(Replace(period, <<"d">>, <<>>), <<"w", "k">>, <<"7">>),
            <<"m", "o">>, <<"3", "0">>)

(* generate_mock_data, lines 133-141: int() raises ValueError or not *)
MockParses(period) ==
    period \in {P_1d, P_2d} \/ IntParses(MockPointsText(period))

(* generate_mock_data, lines 133-141: the rows of the table *)
MockRows(period) ==
    IF period = P_1d THEN 2
    ELSE IF period = P_2d THEN 3
    ELSE Min(10, IntOf(MockPointsText(period))) + 1

(* fetch_historical_data, line 287, and lines 159-161 *)
HistStart(t, syms, p) ==
    /\ th[t].pc = "idle"
    /\ \A u \in Threads : u < t => th[u].pc # "idle"
    /\ nreq < MaxRequests
    /\ nreq' = nreq + 1
    /\ th' = [th EXCEPT ![t] = [IdleThread EXCEPT !.pc = "g_read",
                                   !.fn = "hist", !.symbols = syms,
                                   !.period = p]]
    /\ UNCHANGED <<now, last_api_call_time, stock_info_cache, lastOut, outGap,
                   lastQuote>>

(* Strategy 1, lines 164-171 *)
HistBatch(t) ==
    /\ th[t].pc = "h_s1"
    /\ LogOutbound
    /\ \E o \in DownloadOutcomes :
          LET r == [th[t] EXCEPT
                      !.ncalls = th[t].ncalls + 1,
                      !.attempts = Append(th[t].attempts,
                          Attempt(1, th[t].period, o))]
          IN th' = [th EXCEPT ![t] =
                      IF BatchOk(o)
                      THEN [r EXCEPT !.pc = "done",
                               !.result = Table(1, r.period,
                                                SeqToSet(r.symbols), 1)]
                      ELSE [r EXCEPT !.pc = "h_s2"]]
    /\ UNCHANGED <<now, last_api_call_time, stock_info_cache, nreq,
                   lastQuote>>

(* Strategy 2, lines 174-176 with try_alternative_yahoo_endpoint; when it
   gives nothing, strategy 3 starts (line 179, lines 77-78) *)
HistAlternative(t) ==
    /\ th[t].pc = "h_s2"
    /\ LogOutbound
    /\ \E o \in DownloadOutcomes :
          LET alt == AltPeriod(th[t].period)
              r == [th[t] EXCEPT
                      !.ncalls = th[t].ncalls + 1,
                      !.attempts = Append(th[t].attempts,
                          Attempt(2, alt, o))]
          IN th' = [th EXCEPT ![t] =
                      IF o # "raise" /\ AltOk(o)
                      THEN [r EXCEPT !.pc = "done",
                               !.result = Table(2, alt, SeqToSet(r.symbols), 1)]
                      ELSE [r EXCEPT !.pc = "h_ind", !.strat = 3, !.i = 1,
                               !.all_data = {}, !.downloads = <<>>,
                               !.attempts = Append(r.attempts,
                                               Attempt(3, r.period, "pending"))]]
    /\ UNCHANGED <<now, last_api_call_time, stock_info_cache, nreq,
                   lastQuote>>

(* try_individual_downloads, line 82: the delay before each download *)
HistIndividualDelay(t) ==
    /\ th[t].pc = "h_ind"
    /\ \E d \in IndividualJitter :
          th' = [th EXCEPT ![t].pc = "sleep", ![t].cont = "h_dl",
                           ![t].wake = now + d]
    /\ UNCHANGED <<now, last_api_call_time, stock_info_cache, nreq, lastOut,
                   outGap, lastQuote>>

(* The period try_individual_downloads is called with: lines 179 and 186 *)
IndividualPeriod(r) == IF r.strat = 3 THEN r.period ELSE P_1mo

(* After the last symbol of try_individual_downloads: lines 96, 180-192 *)
AfterIndividual(r) ==
    IF r.all_data # {}
    THEN [r EXCEPT !.pc = "done",
             !.result = Table(r.strat, IndividualPeriod(r), r.all_data, 1),
             !.attempts[Len(r.attempts)].outcome = "data"]
    ELSE IF r.strat = 3 /\ TryFallbackPeriod(r.period)
    THEN [r EXCEPT !.pc = "h_ind", !.strat = 4, !.i = 1, !.downloads = <<>>,
             !.attempts = Append([r.attempts EXCEPT
                                     ![Len(r.attempts)].outcome = "empty"],
                                 Attempt(4, P_1mo, "pending"))]
    ELSE [r EXCEPT !.pc = "h_mock",
             !.attempts = Append([r.attempts EXCEPT
                                     ![Len(r.attempts)].outcome = "empty"],
                                 Attempt(5, r.period, "pending"))]

(* try_individual_downloads, lines 83-94: one symbol's download *)
HistIndividualDownload(t) ==
    /\ th[t].pc = "h_dl"
    /\ LogOutbound
    /\ \E o \in DownloadOutcomes :
          LET symbol == th[t].symbols[th[t].i]
              r == [th[t] EXCEPT
                      !.ncalls = th[t].ncalls + 1,
                      !.downloads = Append(th[t].downloads, o),
                      !.all_data = IF o # "raise" /\ IndividualOk(o)
                                   THEN th[t].all_data \cup {symbol}
                                   ELSE th[t].all_data]
          IN th' = [th EXCEPT ![t] =
                      IF r.i < Len(r.symbols)
                      THEN [r EXCEPT !.i = r.i + 1, !.pc = "h_ind"]
                      ELSE AfterIndividual(r)]
    /\ UNCHANGED <<now, last_api_call_time, stock_info_cache, nreq,
                   lastQuote>>

(* Strategy 5, lines 191-194 with generate_mock_data *)
HistMock(t) ==
    /\ th[t].pc = "h_mock"
    /\ th' = [th EXCEPT ![t] =
                IF MockParses(th[t].period)
                THEN [th[t] EXCEPT !.pc = "done",
                         !.attempts[Len(th[t].attempts)].outcome = "data",
                         !.result = Table(5, th[t].period,
                                          SeqToSet(th[t].symbols),
                                          MockRows(th[t].period))]
                ELSE [th[t] EXCEPT !.pc = "done",
                         !.attempts[Len(th[t].attempts)].outcome = "raise",
                         !.result = Raised("ValueError")]]
    /\ UNCHANGED <<now, last_api_call_time, stock_info_cache, nreq, lastOut,
                   outGap, lastQuote>>

-----------------------------------------------------------------------------
(* The gateway as a whole *)

GatewayInit ==
    /\ now = StartTime
    /\ last_api_call_time = 0
    /\ stock_info_cache = [s \in Symbols |-> NoEntry]
    /\ th = [t \in Threads |-> IdleThread]
    /\ nreq = 0
    /\ lastOut = MIN_SECONDS_BETWEEN_CALLS
    /\ outGap = MIN_SECONDS_BETWEEN_CALLS
    /\ lastQuote = [s \in Symbols |-> NoResult]

-----------------------------------------------------------------------------
(* Claims about the gateway *)

QuoteDone(t) == th[t].fn = "quote" /\ th[t].pc = "done"
HistDone(t) == th[t].fn = "hist" /\ th[t].pc = "done"

(* C1: any two outbound calls to the provider are at least
   MIN_SECONDS_BETWEEN_CALLS seconds apart, the successive calls of one
   getHistoricalSeries invocation included. *)
C1_GlobalDelay == outGap >= MIN_SECONDS_BETWEEN_CALLS

(* C2: when every provider strategy has yielded nothing, getHistoricalSeries
   returns a non-empty synthetic table: it returns no null and raises
   nothing, whatever the period. *)
C2_FallbackLadder ==
    \A t \in Threads :
        (HistDone(t) /\ th[t].attempts[Len(th[t].attempts)].strategy = 5)
        => /\ th[t].result.kind = "table"
           /\ th[t].result.strategy = 5
           /\ th[t].result.rows > 0
           /\ th[t].result.columns # {}

(* The earlier getQuote call for the same symbol, when the call of thread t
   started within the cache's time to live of that call's start *)
WithinWindow(t) ==
    /\ QuoteDone(t)
    /\ th[t].prior.kind = "returned"
    /\ th[t].start - th[t].prior.start < CACHE_TIMEOUT_SECONDS

(* C4, as claimed: two getQuote calls for a symbol within the TTL window
   return identical data and make at most one outbound call in total,
   whatever the outcome of the first. *)
C4_Original ==
    \A t \in Threads :
        WithinWindow(t)
        => /\ th[t].result = th[t].prior.result
           /\ th[t].prior.ncalls + th[t].ncalls <= 1

(* C4, amended: when a getQuote call fetched a Quote from the provider, the
   next getQuote call for that symbol, started after it returned and within
   the TTL window while the cache entry is the one it stored, returns the
   identical data and makes no outbound call. *)
C4_Cache ==
    \A t \in Threads :
        (/\ WithinWindow(t)
         /\ th[t].prior.result.kind = "quote"
         /\ th[t].prior.ncalls = 1)
        => /\ th[t].result = th[t].prior.result
           /\ th[t].ncalls = 0

C4_Witness ==
    \E t \in Threads :
        /\ WithinWindow(t)
        /\ th[t].prior.result.kind = "quote"
        /\ th[t].prior.ncalls = 1
        /\ th[t].start > th[t].prior.start
        /\ th[t].result.current_price = 110
        /\ th[t].ncalls = 0

(* C5: a getQuote call whose provider call failed with a rate-limit error
   retries the provider call (up to MAX_RETRIES attempts) before it returns
   null. *)
C5_RetryOnRateLimit ==
    \A t \in Threads :
        (QuoteDone(t) /\ th[t].saw429 /\ th[t].result.kind = "none")
        => th[t].ncalls > 1

(* The provider call of the getQuote call of thread t failed: it raised, or
   it gave no usable price *)
ProviderFailed(t) ==
    \/ th[t].info.kind \in {"exc429", "exc"}
    \/ th[t].info.kind = "info" /\ ~Truthy(CurrentPrice(th[t].info))

(* C13: getQuote raises nothing to its caller: it returns a Quote or null,
   and null when the provider call raised, whatever the exception, or gave
   no usable price *)
C13_QuoteNeverRaises ==
    \A t \in Threads :
        th[t].fn = "quote"
        => /\ th[t].result.kind # "raise"
           /\ QuoteDone(t) => th[t].result.kind \in {"quote", "none"}
           /\ (QuoteDone(t) /\ ProviderFailed(t)) => th[t].result = NoneResult

(* getQuote("ZZZZ") returned null after an exception other than the rate
   limit *)
C13_Witness ==
    \E t \in Threads :
        /\ QuoteDone(t)
        /\ th[t].symbols = <<"ZZZZ">>
        /\ th[t].info.kind = "exc"
        /\ th[t].result = NoneResult

(* The age of the cache entry that the getQuote call of thread t found *)
FoundEntry(t) == th[t].fn = "quote" /\ th[t].found # NoneVal
FoundAge(t) == th[t].start - th[t].found

(* C14: getQuote returns a cached Quote only when the entry's age is less
   than CACHE_TIMEOUT_SECONDS; a call that finds an entry of that age or
   more goes to the provider and, when that succeeds, leaves an entry with a
   fresh timestamp in its place *)
C14_Staleness ==
    \A t \in Threads :
        /\ (QuoteDone(t) /\ th[t].ncalls = 0)
           => /\ FoundEntry(t)
              /\ FoundAge(t) < CACHE_TIMEOUT_SECONDS
        /\ (QuoteDone(t) /\ FoundEntry(t)
               /\ FoundAge(t) >= CACHE_TIMEOUT_SECONDS)
           => /\ th[t].ncalls = 1
              /\ th[t].result.kind = "quote"
                 => LET e == stock_info_cache[th[t].symbols[1]]
                    IN /\ e.kind = "entry"
                       /\ e.timestamp >= th[t].start
                       /\ e.timestamp > th[t].found

(* a call that found an entry exactly CACHE_TIMEOUT_SECONDS old and put the
   provider's Quote in its place *)
C14_Witness ==
    \E t \in Threads :
        /\ QuoteDone(t)
        /\ FoundEntry(t)
        /\ FoundAge(t) = CACHE_TIMEOUT_SECONDS
        /\ th[t].ncalls = 1
        /\ th[t].result.kind = "quote"
        /\ stock_info_cache[th[t].symbols[1]].timestamp > th[t].start

(* C15: every Quote that getQuote returns and every Quote in the cache has
   a current_price that is not null; when the provider gives none of
   currentPrice, regularMarketPrice and previousClose, getQuote returns
   null *)
C15_QuotePrice ==
    /\ \A t \in Threads :
          /\ (th[t].fn = "quote" /\ th[t].result.kind = "quote")
             => th[t].result.current_price # NoneVal
          /\ (QuoteDone(t) /\ th[t].info.kind = "info"
                 /\ th[t].info.currentPrice = NoneVal
                 /\ th[t].info.regularMarketPrice = NoneVal
                 /\ th[t].info.previousClose = NoneVal)
             => th[t].result = NoneResult
    /\ \A s \in Symbols :
          stock_info_cache[s].kind = "entry"
          => /\ stock_info_cache[s].data.kind = "quote"
             /\ stock_info_cache[s].data.current_price # NoneVal

(* a Quote whose price is the provider's regularMarketPrice, returned and
   cached when the provider gave no currentPrice *)
C15_Witness ==
    \E t \in Threads :
        /\ QuoteDone(t)
        /\ th[t].info.kind = "info"
        /\ th[t].info.currentPrice = NoneVal
        /\ th[t].result.kind = "quote"
        /\ th[t].result.current_price = 100
        /\ stock_info_cache[th[t].symbols[1]].kind = "entry"
        /\ stock_info_cache[th[t].symbols[1]].data = th[t].result

(* a step of thread t's getQuote call that returns null *)
ReturnsNull(t) ==
    /\ th[t].fn = "quote" /\ th[t].pc # "done"
    /\ th'[t].pc = "done" /\ th'[t].result.kind = "none"

(* a step of thread t's getQuote call that returns the cached Quote *)
ServedFromCache(t) ==
    /\ th[t].fn = "quote" /\ th[t].pc = "q_func"
    /\ th'[t].pc = "done"

(* a step that stores the Quote it returns *)
StoresQuote(t) ==
    /\ th[t].fn = "quote" /\ th[t].pc = "q_call"
    /\ th'[t].pc = "done" /\ th'[t].result.kind = "quote"
    /\ \A s \in Symbols \ {th[t].symbols[1]} :
          stock_info_cache'[s] = stock_info_cache[s]

CacheFrame ==
    /\ \A t \in Threads : ReturnsNull(t) => UNCHANGED stock_info_cache
    /\ stock_info_cache' # stock_info_cache
          => \E t \in Threads : StoresQuote(t)
    /\ \A t \in Threads :
          ServedFromCache(t)
              => /\ UNCHANGED <<last_api_call_time, stock_info_cache>>
                 /\ UNCHANGED <<lastOut, outGap>>
                 /\ th'[t].ncalls = 0
                 /\ th'[t].result = stock_info_cache[th[t].symbols[1]].data

(* C30: a getQuote call that returns null adds, replaces and removes no
   cache entry, the cache changing only in the step that stores the Quote a
   call returns; a getQuote call served from the cache makes no call to the
   provider and leaves the last-call timestamp as it was *)
C30_CacheFrame == [][CacheFrame]_vars

(* a call that found a stale entry, called the provider and returned null:
   the entry is still there *)
C30_Witness ==
    \E t \in Threads :
        /\ QuoteDone(t)
        /\ th[t].result.kind = "none"
        /\ th[t].ncalls = 1
        /\ th[t].found # NoneVal
        /\ stock_info_cache[th[t].symbols[1]].kind = "entry"
        /\ stock_info_cache[th[t].symbols[1]].timestamp = th[t].found

Wrapped(t) == th[t].fn = "wrapped"

(* what the wrapper does after the last call of the wrapped function *)
WrapperFollows(t) ==
    CASE th[t].info.kind = "return" ->
            th[t].pc = "done" /\ th[t].result = WrappedValue
      [] th[t].info.kind = "exc" ->
            th[t].pc = "done" /\ th[t].result.kind = "raise"
      [] th[t].info.kind = "exc429" /\ th[t].ncalls = MAX_RETRIES ->
            th[t].pc = "done" /\ th[t].result.kind = "raise"
      [] th[t].info.kind = "exc429" /\ th[t].ncalls < MAX_RETRIES ->
            \/ /\ th[t].pc = "sleep"
               /\ th[t].wake - th[t].found
                     >= BASE_DELAY * Pow2(th[t].ncalls) + 1
               /\ th[t].wake - th[t].found
                     <= BASE_DELAY * Pow2(th[t].ncalls) + 3
            \/ th[t].pc = "w_call" /\ now >= th[t].wake
      [] OTHER -> th[t].pc = "w_call" /\ th[t].ncalls = 0

WrapperBounded ==
    \A t \in Threads :
        Wrapped(t) => th[t].ncalls <= MAX_RETRIES /\ WrapperFollows(t)

(* C29: retry_with_backoff calls the wrapped function at most MAX_RETRIES
   times and always ends; after an exception with '429' it sleeps and calls
   again, at the third such failure it raises the exception to its caller,
   and an exception without '429' it raises at once, with no other call *)
C29_BoundedRetry ==
    /\ []WrapperBounded
    /\ \A t \in Threads : Wrapped(t) ~> (Wrapped(t) /\ th[t].pc = "done")

(* the third failure with '429' in a row, raised to the caller *)
C29_Witness ==
    \E t \in Threads :
        /\ Wrapped(t)
        /\ th[t].pc = "done"
        /\ th[t].ncalls = MAX_RETRIES
        /\ th[t].result = Raised("429")

ResetDone(t) == th[t].fn = "reset" /\ th[t].pc = "done"

(* C17: a reset through POST /status/reset ends with the success response
   and leaves the quote cache empty and the last-call timestamp at 0 *)
C17_GatewayReset ==
    \A t \in Threads :
        ResetDone(t)
        => /\ th[t].result = ResetMessage
           /\ \A s \in Symbols : stock_info_cache[s] = NoEntry
           /\ last_api_call_time = 0

Abs(x) == IF x < 0 THEN -x ELSE x

(* change_percent, in hundredths of a percent, is the nearest to
   (current_price - previous_close) / previous_close * 100 *)
ChangeRounded(q) ==
    2 * Abs(q.change_percent * q.previous_close
            - (q.current_price - q.previous_close) * 10000)
        <= q.previous_close

ChangeGuarded(q) ==
    IF q.previous_close = NoneVal \/ q.previous_close = 0
    THEN q.change_percent = 0
    ELSE ChangeRounded(q)

(* C16: a Quote whose previous_close is absent or zero has change_percent
   0, and any other Quote has change_percent =
   (current_price - previous_close) / previous_close * 100 rounded to 2
   decimals *)
C16_ChangePercent ==
    /\ \A t \in Threads :
          (th[t].fn = "quote" /\ th[t].result.kind = "quote")
          => ChangeGuarded(th[t].result)
    /\ \A t \in Threads :
          (QuoteDone(t) /\ th[t].info.kind = "info"
             /\ Truthy(CurrentPrice(th[t].info)))
          => th[t].result.kind = "quote"

(* two Quotes returned: one with previous_close 0 and change_percent 0, one
   with price 110, previous_close 90 and change_percent 22.22 *)
C16_Witness ==
    \E t \in Threads, u \in Threads :
        /\ QuoteDone(t) /\ QuoteDone(u)
        /\ th[t].result.kind = "quote"
        /\ th[t].result.previous_close = 0
        /\ th[t].result.change_percent = 0
        /\ th[u].result.kind = "quote"
        /\ th[u].result.current_price = 110
        /\ th[u].result.previous_close = 90
        /\ th[u].result.change_percent = 2222

(* the symbols whose download, in the per-symbol strategy under way, gave
   close prices *)
Succeeded(t) ==
    {th[t].symbols[k] : k \in {j \in 1..Len(th[t].downloads) :
                                  th[t].downloads[j] = "data"}}

PerSymbolOver(t) ==
    /\ th[t].fn = "hist"
    /\ th[t].strat \in {3, 4}
    /\ Len(th[t].downloads) = Len(th[t].symbols)

(* C25: in the per-symbol strategy a symbol whose download raises or has no
   close prices does not stop the downloads of the symbols after it, the
   merged table has a column for every symbol whose download succeeded and
   for no other, and the strategy yields its table when at least one symbol
   succeeded *)
C25_PerSymbolTolerance ==
    \A t \in Threads :
        /\ (th[t].fn = "hist" /\ th[t].strat \in {3, 4})
              => /\ th[t].all_data = Succeeded(t)
                 /\ (th[t].pc = "done" \/ th[t].pc = "h_mock")
                       => Len(th[t].downloads) = Len(th[t].symbols)
        /\ (PerSymbolOver(t) /\ Succeeded(t) # {})
              => /\ th[t].pc = "done"
                 /\ th[t].result.kind = "table"
                 /\ th[t].result.strategy = th[t].strat
                 /\ th[t].result.columns = Succeeded(t)

(* the download of the first symbol raised, that of the second gave close
   prices: a table with the second symbol's column *)
C25_Witness ==
    \E t \in Threads :
        /\ HistDone(t)
        /\ th[t].strat = 3
        /\ th[t].symbols = <<"AAPL", "ZZZZ">>
        /\ th[t].downloads = <<"raise", "data">>
        /\ th[t].result.kind = "table"
        /\ th[t].result.columns = {"ZZZZ"}

(* The order the claim gives, and the order with strategy 4 left out when
   the period is already 1mo *)
ClaimedOrder == <<1, 2, 3, 4, 5>>
CodeOrder(period) ==
    IF period = P_1mo THEN <<1, 2, 3, 5>> ELSE <<1, 2, 3, 4, 5>>

NonEmpty(a) == a.outcome \in {"noclose", "data"}
Usable(a) == IF a.strategy = 1 THEN a.outcome = "data" ELSE NonEmpty(a)

(* The attempts follow order, each but the last gave nothing by yields, and
   a returned table is the last attempt's, which gave data *)
LadderFollows(t, order, yields(_)) ==
    LET a == th[t].attempts
    IN /\ Len(a) <= Len(order)
       /\ \A k \in 1..Len(a) : a[k].strategy = order[k]
       /\ \A k \in 1..(Len(a) - 1) : ~yields(a[k])
       /\ (HistDone(t) /\ th[t].result.kind = "table")
          => /\ th[t].result.strategy = a[Len(a)].strategy
             /\ yields(a[Len(a)])

(* C6, as claimed: the strategies are attempted in the order batch, batch
   with a substituted period, per symbol, per symbol with period 1mo,
   synthetic; each only after every earlier one yielded no data; the result
   is that of the first strategy that yields non-empty data. *)
C6_Original ==
    \A t \in Threads :
        th[t].fn = "hist" => LadderFollows(t, ClaimedOrder, NonEmpty)

(* C6, amended: as claimed, except that the batch download yields data only
   when its table is non-empty and has Close prices, and that the per-symbol
   strategy with period 1mo is left out when the period asked for is 1mo. *)
C6_FallbackOrder ==
    \A t \in Threads :
        th[t].fn = "hist"
        => /\ LadderFollows(t, CodeOrder(th[t].period), Usable)
           /\ \A k \in 1..Len(th[t].attempts) :
                 th[t].attempts[k].strategy = 4
                 => th[t].attempts[k].period = P_1mo

C6_Witness ==
    \E t \in Threads :
        /\ HistDone(t)
        /\ th[t].period = P_1mo
        /\ th[t].result.kind = "table"
        /\ th[t].result.strategy = 5
        /\ Len(th[t].attempts) = 4
        /\ th[t].attempts[1].outcome = "noclose"

-----------------------------------------------------------------------------
(* The ledger: app/routes/transactions.py over the rows of app/models.py.
   A Stock row is modelled by its current_price, an average price is an
   exact fraction n/d in lowest terms, and a request's session holds the
   rows as the request sees them: commit writes them, rollback and the end
   of the request discard them. *)

InitialCash == 300
MaxLedgerOps == 3

(* The requests in flight: one at a time, or two served at the same time by
   the threads of app.run (app.py, line 179) *)
LedgerRequests == {1}
ConcurrentRequests == {1, 2}
ShareInputs == {0, 1, 2}
Prices == {100, 110}
InfoResults == {NoneVal} \cup Prices

RECURSIVE GCD(_, _)
GCD(a, b) == IF b = 0 THEN a ELSE GCD(b, a % b)

Frac(n, d) == [n |-> n \div GCD(n, d), d |-> d \div GCD(n, d)]
FracOfInt(k) == [n |-> k, d |-> 1]
FracAdd(x, y) == Frac(x.n * y.d + y.n * x.d, x.d * y.d)
FracTimes(k, x) == Frac(k * x.n, x.d)

RECURSIVE SumOver(_, _)
SumOver(f, S) ==
    IF S = {} THEN 0
    ELSE LET s == CHOOSE x \in S : TRUE IN f[s] + SumOver(f, S \ {s})

RECURSIVE FracSumOver(_, _)
FracSumOver(f, S) ==
    IF S = {} THEN FracOfInt(0)
    ELSE LET s == CHOOSE x \in S : TRUE
         IN FracAdd(f[s], FracSumOver(f, S \ {s}))

(* models.py: no Holding row for a symbol *)
NoHolding == [present |-> FALSE, shares |-> 0, avg_price |-> FracOfInt(0)]

HoldingRow(shares, avg_price) ==
    [present |-> TRUE, shares |-> shares, avg_price |-> avg_price]

(* datetime.utcnow(), line 201 and line 283 *)
UtcNow == clock + utc_ahead

(* lines 196-202 and 278-284 with the price as the amount *)
TransactionRowOfPrice(symbol, type, shares, price, txn_date) ==
    [symbol |-> symbol, transaction_type |-> type, shares |-> shares,
     price |-> price, amount |-> price, txn_date |-> txn_date]

TransactionRow(symbol, type, shares, price, txn_date) ==
    [symbol |-> symbol, transaction_type |-> type, shares |-> shares,
     price |-> price, amount |-> shares * price, txn_date |-> txn_date]

(* clean_db.py: no stocks, no holdings, no transactions, one portfolio *)
EmptyStore ==
    [stocks |-> [s \in Symbols |-> NoneVal],
     holdings |-> [s \in Symbols |-> NoHolding],
     cash_balance |-> InitialCash,
     transactions |-> <<>>]

NoSummary ==
    [totalPortfolioValue |-> NoneVal, totalGainLoss |-> FracOfInt(0),
     cashBalance |-> NoneVal, totalHoldings |-> NoneVal]

IdleRequest ==
    [pc |-> "idle", fn |-> "none", symbol |-> "", shares |-> 0,
     price |-> NoneVal, transaction_cost |-> 0, status |-> 0,
     reason |-> "", summary |-> NoSummary, summary_calls |-> 0,
     session |-> EmptyStore, before |-> EmptyStore, loaded |-> EmptyStore,
     data |-> NoResult, close |-> [s \in Symbols |-> NoneVal]]

(* a response: the request is over but for the teardown of its session *)
Respond(r, status, reason, session) ==
    [r EXCEPT !.pc = "done", !.status = status, !.reason = reason,
              !.session = session]

(* line 162 with the price in the place of the cost *)
InsufficientCashByPrice(shares, price, cash_balance) == price > cash_balance

(* lines 160-162 with no purchase refused *)
InsufficientCashNever(shares, price, cash_balance) == FALSE

(* lines 160-162 *)
InsufficientCash(shares, price, cash_balance) == shares * price > cash_balance

(* lines 173-176 with the shares added in the place of the new total *)
NewAvgPriceByAdded(old_shares, old_avg_price, shares_to_add, transaction_price) ==
    LET new_total_cost == FracAdd(FracTimes(old_shares, old_avg_price),
                                  FracOfInt(shares_to_add * transaction_price))
    IN Frac(new_total_cost.n, new_total_cost.d * shares_to_add)

(* lines 173-176 *)
NewAvgPrice(old_shares, old_avg_price, shares_to_add, transaction_price) ==
    LET new_shares == old_shares + shares_to_add
        new_total_cost == FracAdd(FracTimes(old_shares, old_avg_price),
                                  FracOfInt(shares_to_add * transaction_price))
    IN IF new_shares > 0
       THEN Frac(new_total_cost.n, new_total_cost.d * new_shares)
       ELSE FracOfInt(0)

(* lines 166-192 *)
(* lines 166-192 with the shares bought in the place of the new total *)
BuyHoldingReplace(h, shares_to_add, transaction_price) ==
    IF h.present
    THEN HoldingRow(shares_to_add,
                    NewAvgPrice(h.shares, h.avg_price, shares_to_add,
                                transaction_price))
    ELSE HoldingRow(shares_to_add, FracOfInt(transaction_price))

(* lines 166-192 *)
BuyHolding(h, shares_to_add, transaction_price) ==
    IF h.present
    THEN HoldingRow(h.shares + shares_to_add,
                    NewAvgPrice(h.shares, h.avg_price, shares_to_add,
                                transaction_price))
    ELSE HoldingRow(shares_to_add, FracOfInt(transaction_price))

(* lines 289-294 with the row kept when no share is left *)
SellHoldingKeepsRow(h, shares_to_sell) ==
    [h EXCEPT !.shares = h.shares - shares_to_sell]

(* lines 289-294 with the cost basis spread over the shares left *)
SellHoldingReaverage(h, shares_to_sell) ==
    IF shares_to_sell = h.shares
    THEN NoHolding
    ELSE [h EXCEPT !.shares = h.shares - shares_to_sell,
                   !.avg_price = Frac(h.shares * h.avg_price.n,
                                      (h.shares - shares_to_sell)
                                          * h.avg_price.d)]

(* lines 289-294 *)
SellHolding(h, shares_to_sell) ==
    IF shares_to_sell = h.shares
    THEN NoHolding
    ELSE [h EXCEPT !.shares = h.shares - shares_to_sell]

LedgerStart(r, fn, sym, n) ==
    [rq[r] EXCEPT !.fn = fn, !.symbol = sym, !.shares = n, !.before = db,
                  !.loaded = db]

(* db.session.commit(): the rows the session changed since it loaded them
   are written, the transactions it added are inserted, and every other row
   stays as the database has it *)
CommitOf(session, loaded) ==
    [stocks |-> [s \in Symbols |->
                    IF session.stocks[s] # loaded.stocks[s]
                    THEN session.stocks[s] ELSE db.stocks[s]],
     holdings |-> [s \in Symbols |->
                      IF session.holdings[s] # loaded.holdings[s]
                      THEN session.holdings[s] ELSE db.holdings[s]],
     cash_balance |-> IF session.cash_balance # loaded.cash_balance
                      THEN session.cash_balance ELSE db.cash_balance,
     transactions |-> db.transactions
                        \o SubSeq(session.transactions,
                                  Len(loaded.transactions) + 1,
                                  Len(session.transactions))]

(* add_stock, lines 59-204: up to the call of _calculate_live_summary *)
BuyStart(r, sym, n, info, flushOk) ==
    /\ rq[r].pc = "idle"
    /\ nops < MaxLedgerOps
    /\ nops' = nops + 1
    /\ LET q == LedgerStart(r, "buy", sym, n)
           upsert == [db EXCEPT !.stocks[sym] = info]
           cost == n * info
           bought == [upsert EXCEPT
                        !.holdings[sym] = BuyHolding(db.holdings[sym], n, info),
                        !.transactions =
                            Append(@, TransactionRow(sym, "BUY", n, info, UtcNow))]
       IN rq' = [rq EXCEPT ![r] =
            IF n = 0 THEN Respond(q, 400, "shares", db)
            ELSE IF info = NoneVal THEN Respond(q, 404, "info", db)
            ELSE IF ~flushOk THEN Respond(q, 500, "flush", db)
            ELSE IF InsufficientCash(n, info, db.cash_balance)
                 THEN Respond([q EXCEPT !.price = info,
                                        !.transaction_cost = cost],
                              400, "cash", upsert)
            ELSE [q EXCEPT !.pc = "summary", !.price = info,
                           !.transaction_cost = cost, !.session = bought]]
    /\ UNCHANGED db

(* sell_stock, lines 226-297: up to and with its commit *)
SellStart(r, sym, n, info, commitOk) ==
    /\ rq[r].pc = "idle"
    /\ nops < MaxLedgerOps
    /\ nops' = nops + 1
    /\ LET q == LedgerStart(r, "sell", sym, n)
           h == db.holdings[sym]
           cost == n * info
           sold == [db EXCEPT
                      !.stocks[sym] = info,
                      !.transactions =
                          Append(@, TransactionRow(sym, "SELL", n, info, UtcNow)),
                      !.holdings[sym] = SellHolding(h, n),
                      !.cash_balance = @ + cost]
           accepted == n # 0 /\ h.present /\ n <= h.shares /\ info # NoneVal
       IN /\ rq' = [rq EXCEPT ![r] =
                IF n = 0 THEN Respond(q, 400, "shares", db)
                ELSE IF ~h.present THEN Respond(q, 404, "holding", db)
                ELSE IF n > h.shares THEN Respond(q, 400, "insufficient", db)
                ELSE IF info = NoneVal THEN Respond(q, 404, "info", db)
                ELSE IF ~commitOk
                     THEN Respond([q EXCEPT !.price = info,
                                            !.transaction_cost = cost],
                                  500, "commit", db)
                ELSE [q EXCEPT !.pc = "summary", !.price = info,
                               !.transaction_cost = cost, !.session = sold,
                               !.loaded = sold]]
          /\ db' = IF accepted /\ commitOk THEN sold ELSE db


(* _calculate_live_summary, lines 10-56, as add_stock (line 205) and
   sell_stock (line 299) call it: a quote per holding, the commit of line
   46, which writes whatever the session holds, and the summary; an error
   of the commit is caught by the caller's handler (lines 215-222,
   314-321), which rolls back *)
HeldSymbols(store) == {s \in Symbols : store.holdings[s].present}

LivePrice(store, infos, s) ==
    IF infos[s] # NoneVal THEN infos[s] ELSE store.stocks[s]

SummaryOf(store, infos) ==
    LET held == HeldSymbols(store)
        total_stock_value ==
            SumOver([s \in held |->
                        store.holdings[s].shares * LivePrice(store, infos, s)],
                    held)
        total_cost_basis ==
            FracSumOver([s \in held |->
                            FracTimes(store.holdings[s].shares,
                                      store.holdings[s].avg_price)],
                        held)
    IN [totalPortfolioValue |-> total_stock_value + store.cash_balance,
        totalGainLoss |-> FracAdd(FracOfInt(total_stock_value),
                                  FracTimes(-1, total_cost_basis)),
        cashBalance |-> store.cash_balance,
        totalHoldings |-> Cardinality(held)]

(* lines 27-34: a call of fetch_stock_info for every holding *)
SummaryCalls(store) == Cardinality(HeldSymbols(store))

LiveSummary(r, infos, commitOk) ==
    /\ rq[r].pc = "summary"
    /\ LET s == CommitOf(rq[r].session, rq[r].loaded)
           priced == [s EXCEPT !.stocks =
                        [x \in Symbols |->
                            IF x \in HeldSymbols(s) THEN LivePrice(s, infos, x)
                            ELSE s.stocks[x]]]
       IN IF commitOk
          THEN /\ db' = priced
               /\ rq' = [rq EXCEPT ![r] =
                    IF rq[r].fn = "buy"
                    THEN [@ EXCEPT !.pc = "commit", !.session = priced,
                                   !.loaded = priced,
                                   !.summary = SummaryOf(s, infos),
                                   !.summary_calls = SummaryCalls(s)]
                    ELSE Respond([@ EXCEPT !.summary = SummaryOf(s, infos),
                                           !.summary_calls = SummaryCalls(s)],
                                 200, "ok", priced)]
          ELSE /\ db' = db
               /\ rq' = [rq EXCEPT ![r] =
                    Respond([@ EXCEPT !.summary_calls = SummaryCalls(s)],
                            500, "commit", db)]
    /\ UNCHANGED nops

(* add_stock, lines 207-213, and its handlers, lines 215-222 *)
BuyCommit(r, commitOk) ==
    /\ rq[r].pc = "commit"
    /\ LET debited == [rq[r].session EXCEPT
                          !.cash_balance = @ - rq[r].transaction_cost]
       IN IF commitOk
          THEN /\ db' = CommitOf(debited, rq[r].loaded)
               /\ rq' = [rq EXCEPT ![r] = Respond(@, 200, "ok", debited)]
          ELSE /\ db' = db
               /\ rq' = [rq EXCEPT ![r] = Respond(@, 500, "commit", db)]
    /\ UNCHANGED nops

(* Requests served at the same time: app.run (app.py, line 179) serves each
   request in a thread of its own, each with its own session on the one
   SQLite file (config.py, line 7).  A session that has flushed rows holds
   the write lock of the file until its commit (line 46); the flush or the
   commit of another session waits for it *)
WriteLocked(r) ==
    \E o \in ConcurrentRequests \ {r} : rq[o].pc = "summary"

(* GET /api/summary: summary of routes.py *)

(* What fetch_historical_data(symbols, period="1d") can give: the table of
   the batch download or of the alternative period, with the symbols asked
   for, the table merged from the downloads one symbol at a time, with some
   of them, or the mock table *)
SummaryTables(symbols) ==
    {Table(1, P_1d, symbols, 1), Table(2, P_5d, symbols, 1),
     Table(5, P_1d, symbols, 2)}
    \cup {Table(k, IF k = 3 THEN P_1d ELSE P_1mo, c, 1) :
             k \in {3, 4}, c \in (SUBSET symbols) \ {{}}}

(* The labels of the columns: the symbols in the tables built by
   try_individual_downloads (yfinance_helper.py, line 88) and
   generate_mock_data (line 144); the tables yf.download gives for a list
   of symbols (lines 64 and 166) are labelled by price field, Close among
   them, and then by symbol *)
LabelledBySymbol(data) == data.strategy \in {3, 4, 5}

(* line 76: symbol in data.columns *)
InColumns(symbol, data) == LabelledBySymbol(data) /\ symbol \in data.columns

(* lines 75-77: realtime_prices, NoneVal for no entry *)
RealtimePrices(store, data, close) ==
    [s \in Symbols |->
        IF s \in HeldSymbols(store) /\ InColumns(s, data) THEN close[s]
        ELSE NoneVal]

(* lines 48-110 *)
SummaryRoute(r, data, close) ==
    /\ rq[r].pc = "idle"
    /\ data \in SummaryTables(HeldSymbols(db))
    /\ rq' = [rq EXCEPT ![r] =
          IF HeldSymbols(db) = {}
          THEN Respond([LedgerStart(r, "summary", "", 0) EXCEPT
                           !.summary = SummaryOf(db, [s \in Symbols |-> NoneVal])],
                       200, "ok", db)
          ELSE Respond([LedgerStart(r, "summary", "", 0) EXCEPT
                           !.summary = SummaryOf(db,
                                           RealtimePrices(db, data, close)),
                           !.summary_calls = 1,
                           !.data = data, !.close = close],
                       200, "ok", db)]
    /\ UNCHANGED <<db, nops>>

(* the end of the request: the session is removed, and what it has not
   committed is discarded *)
Teardown(r) ==
    /\ rq[r].pc = "done"
    /\ rq' = [rq EXCEPT ![r] = IdleRequest]
    /\ UNCHANGED <<db, nops>>

LedgerInit ==
    /\ db = EmptyStore
    /\ rq = [r \in ConcurrentRequests |-> IdleRequest]
    /\ nops = 0

-----------------------------------------------------------------------------
(* Claims about the ledger *)

Ledger(store) ==
    [holdings |-> store.holdings, cash_balance |-> store.cash_balance,
     transactions |-> store.transactions]

RECURSIVE NetAmount(_)
NetAmount(txns) ==
    IF txns = <<>> THEN 0
    ELSE LET t == txns[Len(txns)]
         IN NetAmount(SubSeq(txns, 1, Len(txns) - 1))
            + (IF t.transaction_type = "BUY" THEN -t.amount ELSE t.amount)

(* C3: a BUY or SELL that fails at a commit leaves the persisted holdings,
   cash balance and transactions as they were before the request, and in
   no persisted state is a transaction stored without its cash movement:
   the persisted cash balance is always the initial one plus the net
   amount of the persisted transactions *)
C3_LedgerAtomicity ==
    /\ \A r \in LedgerRequests :
          (rq[r].pc = "done" /\ rq[r].status = 500 /\ rq[r].reason = "commit")
              => Ledger(db) = Ledger(rq[r].before)
    /\ db.cash_balance = InitialCash + NetAmount(db.transactions)

(* C10: a BUY whose cost exceeds the cash balance, and a SELL of more shares
   than the holding has, are answered with status 400, and the persisted
   holdings, cash balance and transactions, and those of the request's
   session, are the ones from before the request *)
Overdrawn(r) ==
    /\ rq[r].fn = "buy"
    /\ rq[r].price # NoneVal
    /\ rq[r].shares * rq[r].price > rq[r].before.cash_balance

Oversold(r) ==
    /\ rq[r].fn = "sell"
    /\ rq[r].before.holdings[rq[r].symbol].present
    /\ rq[r].shares > rq[r].before.holdings[rq[r].symbol].shares

C10_RejectedMutatesNothing ==
    \A r \in LedgerRequests :
        /\ Overdrawn(r) =>
              /\ rq[r].pc = "done" /\ rq[r].status = 400
              /\ Ledger(db) = Ledger(rq[r].before)
              /\ Ledger(rq[r].session) = Ledger(rq[r].before)
        /\ (rq[r].pc = "done" /\ Oversold(r)) =>
              /\ rq[r].status = 400
              /\ Ledger(db) = Ledger(rq[r].before)
              /\ Ledger(rq[r].session) = Ledger(rq[r].before)

(* a rejected BUY of a symbol that is held, with the new price of its stock
   pending in the session *)
C10_Witness ==
    \E r \in LedgerRequests :
        /\ Overdrawn(r)
        /\ rq[r].status = 400
        /\ rq[r].before.transactions # <<>>
        /\ rq[r].session.stocks # db.stocks

Accepted(r, fn) ==
    rq[r].pc = "done" /\ rq[r].fn = fn /\ rq[r].status = 200

(* C11: after a successful BUY of s2 shares at price p2 on a holding of s1
   shares at average price avg1, the holding has s1 + s2 shares at the
   average price (s1 * avg1 + s2 * p2) / (s1 + s2); a BUY of a symbol with
   no holding creates a holding at the average price p2 *)
C11_AverageCost ==
    \A r \in LedgerRequests :
        Accepted(r, "buy") =>
            LET old == rq[r].before.holdings[rq[r].symbol]
                new == db.holdings[rq[r].symbol]
                s1 == old.shares
                s2 == rq[r].shares
                p2 == rq[r].price
            IN /\ new.present
               /\ new.shares = s1 + s2
               /\ IF old.present
                  THEN new.avg_price.n * old.avg_price.d * (s1 + s2)
                         = (s1 * old.avg_price.n + s2 * p2 * old.avg_price.d)
                           * new.avg_price.d
                  ELSE new.avg_price.n = p2 * new.avg_price.d

(* a BUY at 110 on a holding bought at 100 *)
C11_Witness ==
    \E r \in LedgerRequests :
        /\ Accepted(r, "buy")
        /\ rq[r].before.holdings[rq[r].symbol].present
        /\ rq[r].before.holdings[rq[r].symbol].avg_price = FracOfInt(100)
        /\ rq[r].price = 110
        /\ db.holdings[rq[r].symbol].avg_price = Frac(210, 2)

(* C12: a computation of the summary, that of the response of a BUY or SELL
   included, makes one batched Gateway call for all the held symbols, never
   a call per holding: whatever the number of holdings, at most one call *)
C12_SingleBatchedCall ==
    \A r \in LedgerRequests : rq[r].summary_calls <= 1

SoldFrom(r) == rq[r].before.holdings[rq[r].symbol]

(* C21: a SELL of all the shares of a holding deletes the holding, a SELL of
   fewer shares takes exactly that count from the holding's shares, and no
   holding with zero shares is ever stored *)
C21_RemovalAtZero ==
    /\ \A r \in LedgerRequests :
          Accepted(r, "sell") =>
              IF rq[r].shares = SoldFrom(r).shares
              THEN ~db.holdings[rq[r].symbol].present
              ELSE /\ db.holdings[rq[r].symbol].present
                   /\ db.holdings[rq[r].symbol].shares
                         = SoldFrom(r).shares - rq[r].shares
    /\ \A s \in Symbols :
          db.holdings[s].present => db.holdings[s].shares # 0

(* a SELL of the 2 shares of a holding, which is gone *)
C21_Witness ==
    \E r \in LedgerRequests :
        /\ Accepted(r, "sell")
        /\ SoldFrom(r).shares = 2
        /\ rq[r].shares = 2
        /\ ~db.holdings[rq[r].symbol].present

(* C22: a successful SELL that leaves the holding leaves its avg_price as it
   was, and leaves the shares and the avg_price of every other holding as
   they were *)
C22_SellKeepsAverage ==
    \A r \in LedgerRequests :
        Accepted(r, "sell") =>
            /\ db.holdings[rq[r].symbol].present
                  => db.holdings[rq[r].symbol].avg_price
                        = SoldFrom(r).avg_price
            /\ \A s \in Symbols \ {rq[r].symbol} :
                  db.holdings[s] = rq[r].before.holdings[s]

(* a SELL of 1 of 2 shares bought at 100, at the price 110, with another
   symbol held *)
C22_Witness ==
    \E r \in LedgerRequests :
        /\ Accepted(r, "sell")
        /\ SoldFrom(r).shares = 2
        /\ SoldFrom(r).avg_price = FracOfInt(100)
        /\ rq[r].shares = 1
        /\ rq[r].price = 110
        /\ db.holdings[rq[r].symbol].avg_price = FracOfInt(100)
        /\ \E s \in Symbols \ {rq[r].symbol} : db.holdings[s].present

LastTransaction(store) == store.transactions[Len(store.transactions)]

(* C23: a successful BUY of n shares at the price p takes exactly n * p from
   the persisted cash balance, a successful SELL adds exactly n * p to it,
   and the transaction recorded has that amount *)
C23_CashMovement ==
    \A r \in LedgerRequests :
        /\ Accepted(r, "buy") =>
              /\ db.cash_balance
                    = rq[r].before.cash_balance - rq[r].shares * rq[r].price
              /\ LastTransaction(db).transaction_type = "BUY"
              /\ LastTransaction(db).amount = rq[r].shares * rq[r].price
        /\ Accepted(r, "sell") =>
              /\ db.cash_balance
                    = rq[r].before.cash_balance + rq[r].shares * rq[r].price
              /\ LastTransaction(db).transaction_type = "SELL"
              /\ LastTransaction(db).amount = rq[r].shares * rq[r].price

(* a SELL of 2 shares at 110 after a BUY: 220 more cash *)
C23_Witness ==
    \E r \in LedgerRequests :
        /\ Accepted(r, "sell")
        /\ rq[r].shares = 2
        /\ rq[r].price = 110
        /\ db.cash_balance = rq[r].before.cash_balance + 220
        /\ LastTransaction(db).amount = 220

(* the holdings of the store at the stored prices *)
StockValue(store) ==
    SumOver([s \in HeldSymbols(store) |->
                store.holdings[s].shares * store.stocks[s]],
            HeldSymbols(store))

SummaryFresh(r) ==
    /\ rq[r].summary.cashBalance = db.cash_balance
    /\ rq[r].summary.totalPortfolioValue = StockValue(db) + db.cash_balance

(* C18: the summary in the response of a successful BUY or SELL describes
   the state after the transaction: its cashBalance is the persisted cash
   balance after the debit or the credit, and its totalPortfolioValue is
   computed from that cash *)
C18_FreshSummary ==
    \A r \in LedgerRequests :
        (Accepted(r, "buy") \/ Accepted(r, "sell")) => SummaryFresh(r)

-----------------------------------------------------------------------------
(* The performance reconstruction: get_portfolio_performance of
   app/services/portfolioPerformance.py.  An instant is a slot of a day, a
   date is a day number, a label is the date it prints, and the table of
   closing prices is given by the days it has rows for and by its prices. *)

SlotsPerDay == 2
TradeHorizon == 3
MaxSkipDays == 25
ChartPoints == 12

MaxPerfOps == 2

PerfSymbols == {"AAPL"}
PerfShares == {1, 2}
PerfPrices == {100}

(* datetime.date() *)
DateOf(t) == t \div SlotsPerDay

(* line 14: order_by(Transaction.txn_date.asc()), rows of one date staying
   in the order of their insertion *)
RECURSIVE SortByDate(_)
SortByDate(txns) ==
    IF Len(txns) <= 1 THEN txns
    ELSE LET rest == SortByDate(SubSeq(txns, 1, Len(txns) - 1))
             t == txns[Len(txns)]
             k == Cardinality({i \in 1..Len(rest) :
                                  rest[i].txn_date <= t.txn_date})
         IN SubSeq(rest, 1, k) \o <<t>> \o SubSeq(rest, k + 1, Len(rest))

(* lines 28-41 *)
RECURSIVE CashAtPeriodStart(_, _, _)
CashAtPeriodStart(current_cash, txns, start_date) ==
    IF txns = <<>> THEN current_cash
    ELSE LET t == txns[Len(txns)]
             c == CashAtPeriodStart(current_cash,
                                    SubSeq(txns, 1, Len(txns) - 1), start_date)
         IN IF t.txn_date >= start_date
            THEN IF t.transaction_type = "BUY" THEN c + t.amount
                 ELSE c - t.amount
            ELSE c

(* line 52: pd.date_range(start, end, freq='D'), which steps by whole days
   from start, time of day and all, while it does not pass end *)
DateRange(start_date, end_date) ==
    [i \in 1..((end_date - start_date) \div SlotsPerDay + 1) |->
        start_date + (i - 1) * SlotsPerDay]

(* lines 56-66 *)
RECURSIVE Replay(_, _, _)
Replay(txns, date, initial_cash) ==
    IF txns = <<>>
    THEN [cash_balance |-> initial_cash,
          holdings_on_date |-> [s \in Symbols |-> 0]]
    ELSE LET t == txns[Len(txns)]
             b == Replay(SubSeq(txns, 1, Len(txns) - 1), date, initial_cash)
         IN IF DateOf(t.txn_date) <= DateOf(date)
            THEN IF t.transaction_type = "BUY"
                 THEN [cash_balance |-> b.cash_balance - t.amount,
                       holdings_on_date |->
                           [b.holdings_on_date EXCEPT ![t.symbol] = @ + t.shares]]
                 ELSE [cash_balance |-> b.cash_balance + t.amount,
                       holdings_on_date |->
                           [b.holdings_on_date EXCEPT ![t.symbol] = @ - t.shares]]
            ELSE b

(* What fetch_historical_data(symbols, period='1y') gives: the ValueError of
   generate_mock_data when no download gave a table, or a table with a
   column per symbol or none, with rows for every day, for the days of the
   week but two, or only from the first day after the first transaction *)
HistRaised == [kind |-> "raise", columns |-> {}, index |-> "none",
               curve |-> "none"]

HistTables ==
    [kind : {"table"}, columns : {{}, PerfSymbols},
     index : {"daily", "weekdays", "late"}, curve : {"rising"}]

HistResults == {HistRaised} \cup HistTables

HasRow(hist, d) ==
    CASE hist.index = "daily" -> TRUE
      [] hist.index = "weekdays" -> d % 7 \notin {2, 3}
      [] hist.index = "late" -> d >= 1
      [] OTHER -> FALSE

Close(hist, s, d) == 100 + 10 * d

(* line 73 with the first row not before date *)
AsOfForward(hist, date) ==
    LET rows == {d \in DateOf(date)..(DateOf(date) + 7) : HasRow(hist, d)}
    IN IF rows = {} THEN NoneVal
       ELSE CHOOSE d \in rows : \A e \in rows : d <= e

(* line 73: hist_data.index.asof(date), the latest row not after date, None
   for NaT *)
AsOf(hist, date) ==
    LET rows == {d \in 0..DateOf(date) : HasRow(hist, d)}
    IN IF rows = {} THEN NoneVal
       ELSE CHOOSE d \in rows : \A e \in rows : e <= d

(* lines 68-80 *)
TotalValue(hist, replayed, date) ==
    LET priced == {s \in Symbols :
                      /\ replayed.holdings_on_date[s] > 0
                      /\ s \in hist.columns
                      /\ AsOf(hist, date) # NoneVal}
    IN replayed.cash_balance
       + SumOver([s \in priced |->
                     replayed.holdings_on_date[s]
                         * Close(hist, s, AsOf(hist, date))],
                 priced)

(* lines 90-91: s[::k] *)
Stride(s, k) ==
    [i \in 1..((Len(s) + k - 1) \div k) |-> s[(i - 1) * k + 1]]

(* lines 93-94 with the first element in the place of the last *)
PadWithFirst(s) == s \o [i \in 1..(ChartPoints - Len(s)) |-> s[1]]

(* lines 93-94 *)
Pad(s) == s \o [i \in 1..(ChartPoints - Len(s)) |-> s[Len(s)]]

(* lines 89-97 *)
Resample(s) ==
    IF Len(s) > ChartPoints THEN Stride(s, Len(s) \div ChartPoints)
    ELSE IF Len(s) < ChartPoints THEN Pad(s)
    ELSE SubSeq(s, 1, ChartPoints)

NoPerf ==
    [kind |-> "none", status |-> 0, labels |-> <<>>, values |-> <<>>,
     dates |-> <<>>, daily_labels |-> <<>>, portfolio_values |-> <<>>,
     daily_cash |-> <<>>, daily_holdings |-> <<>>, hist |-> HistRaised,
     gateway_calls |-> 0, end_date |-> 0]

EmptySeries == [NoPerf EXCEPT !.kind = "empty", !.status = 200]

PerfError == [NoPerf EXCEPT !.kind = "error", !.status = 500]

(* line 30 left out *)
FirstInFutureNever(start_date, end_date) == FALSE

(* line 30 *)
FirstInFuture(start_date, end_date) == start_date > end_date

(* lines 13-111 *)
PerformanceOf(store, end_date, hist) ==
    LET transactions == SortByDate(store.transactions)
        current_cash == store.cash_balance
        start_date == transactions[1].txn_date
        initial_cash == CashAtPeriodStart(current_cash, transactions,
                                          start_date)
        dates == DateRange(start_date, end_date)
        replayed == [i \in 1..Len(dates) |->
                        Replay(transactions, dates[i], initial_cash)]
        portfolio_values == [i \in 1..Len(dates) |->
                                TotalValue(hist, replayed[i], dates[i])]
        daily_labels == [i \in 1..Len(dates) |-> DateOf(dates[i])]
    IN IF transactions = <<>>
       THEN [EmptySeries EXCEPT !.end_date = end_date]
       ELSE IF FirstInFuture(start_date, end_date)
       THEN [EmptySeries EXCEPT !.end_date = end_date]
       ELSE IF hist.kind = "raise"
       THEN [PerfError EXCEPT !.gateway_calls = 1, !.end_date = end_date]
       ELSE IF portfolio_values = <<>>
       THEN [EmptySeries EXCEPT !.gateway_calls = 1, !.end_date = end_date]
       ELSE [kind |-> "series", status |-> 200, gateway_calls |-> 1,
             end_date |-> end_date,
             labels |-> Resample(daily_labels),
             values |-> Resample(portfolio_values),
             dates |-> dates, daily_labels |-> daily_labels,
             portfolio_values |-> portfolio_values,
             daily_cash |-> [i \in 1..Len(dates) |-> replayed[i].cash_balance],
             daily_holdings |->
                 [i \in 1..Len(dates) |-> replayed[i].holdings_on_date],
             hist |-> hist]

LedgerIdle == \A r \in LedgerRequests : rq[r].pc = "idle"

(* GET /api/performance, between ledger requests *)
Performance(hist) ==
    /\ perf.kind = "none"
    /\ LedgerIdle
    /\ perf' = PerformanceOf(db, clock, hist)
    /\ UNCHANGED <<clock, utc_ahead>>

PerfReturn ==
    /\ perf.kind # "none"
    /\ perf' = NoPerf
    /\ UNCHANGED <<clock, utc_ahead>>

(* The clock moves on by a slot while the trades are made, and then once by
   a number of whole days *)
ClockTick ==
    /\ perf.kind = "none"
    /\ clock < TradeHorizon
    /\ clock' = clock + 1
    /\ UNCHANGED <<perf, utc_ahead>>

SkipDays(k) ==
    /\ perf.kind = "none"
    /\ LedgerIdle
    /\ clock = TradeHorizon
    /\ clock' = clock + k * SlotsPerDay
    /\ UNCHANGED <<perf, utc_ahead>>

(* The server's zone is UTC or one slot behind it *)
UtcOffsets == {0, 1}

PerfInit ==
    /\ clock = 0
    /\ perf = NoPerf
    /\ utc_ahead \in UtcOffsets

-----------------------------------------------------------------------------
(* Claims about the performance series *)

PerfSeries == perf.kind = "series"

(* C7: a series of more than 12 daily points is returned as exactly 12
   labels and exactly 12 values *)
C7_LongSeriesTwelve ==
    (PerfSeries /\ Len(perf.portfolio_values) > ChartPoints)
        => /\ Len(perf.labels) = ChartPoints
           /\ Len(perf.values) = ChartPoints

PaddedFrom(out, raw) ==
    /\ Len(out) = ChartPoints
    /\ \A i \in 1..Len(raw) : out[i] = raw[i]
    /\ \A i \in (Len(raw) + 1)..ChartPoints : out[i] = raw[Len(raw)]

(* C8: a series of n daily points, 1 <= n < 12, is returned as 12 points,
   the first n the daily points and the others the last daily point, and a
   series of 12 daily points is returned as it is *)
C8_ShortSeriesPadded ==
    PerfSeries =>
        LET n == Len(perf.portfolio_values)
        IN /\ (1 <= n /\ n < ChartPoints) =>
                  /\ PaddedFrom(perf.values, perf.portfolio_values)
                  /\ PaddedFrom(perf.labels, perf.daily_labels)
           /\ n = ChartPoints =>
                  /\ perf.values = perf.portfolio_values
                  /\ perf.labels = perf.daily_labels

(* a series of 5 daily points whose last value is not its first *)
C8_Witness ==
    /\ PerfSeries
    /\ Len(perf.portfolio_values) = 5
    /\ perf.portfolio_values[5] # perf.portfolio_values[1]
    /\ Len(perf.values) = ChartPoints

(* the dates of the table on or before day d with no later one on or
   before d: one date, or none *)
LatestOnOrBefore(hist, d) ==
    {x \in 0..d : HasRow(hist, x) /\ \A e \in (x + 1)..d : ~HasRow(hist, e)}

(* what s adds to the value of the i-th day of the series *)
AsOfWorth(s, i) ==
    LET latest == LatestOnOrBefore(perf.hist, DateOf(perf.dates[i]))
    IN IF latest = {} THEN 0
       ELSE perf.daily_holdings[i][s]
                * Close(perf.hist, s, CHOOSE x \in latest : TRUE)

Valued(i) ==
    {s \in Symbols : perf.daily_holdings[i][s] > 0 /\ s \in perf.hist.columns}

(* C19: a held symbol is valued on day d at the price of the latest date of
   the historical series on or before d, never at a price dated after d, and
   adds nothing to the value of the day when the series has no date on or
   before d *)
C19_AsOfPricing ==
    PerfSeries =>
        \A i \in 1..Len(perf.dates) :
            perf.portfolio_values[i] - perf.daily_cash[i]
                = SumOver([s \in Valued(i) |-> AsOfWorth(s, i)], Valued(i))

(* a day with shares held and no row in a table that has rows before and
   after it: the shares are valued at the close of the day before *)
C19_Witness ==
    /\ PerfSeries
    /\ perf.hist.index = "weekdays"
    /\ \E i \in 1..Len(perf.dates) :
          /\ DateOf(perf.dates[i]) = 2
          /\ Valued(i) = {"AAPL"}
          /\ perf.portfolio_values[i] - perf.daily_cash[i]
                = perf.daily_holdings[i]["AAPL"] * Close(perf.hist, "AAPL", 1)

PerfAnswered == perf.kind # "none"

(* every transaction, and so the first, is dated after the now of the
   request *)
FirstAfterNow ==
    /\ db.transactions # <<>>
    /\ \A k \in 1..Len(db.transactions) :
          db.transactions[k].txn_date > perf.end_date

(* C20: with no transaction in the ledger, or with the first transaction
   dated after now, the answer is the empty series {labels: [], values: []},
   not an error, and no Gateway call is made *)
C20_EmptySeries ==
    (PerfAnswered /\ (db.transactions = <<>> \/ FirstAfterNow))
        => /\ perf.kind = "empty"
           /\ perf.status = 200
           /\ perf.labels = <<>> /\ perf.values = <<>>
           /\ perf.gateway_calls = 0

(* the empty series for a ledger whose first transaction is dated after
   now *)
C20_Witness ==
    /\ PerfAnswered
    /\ FirstAfterNow
    /\ perf.kind = "empty"
    /\ perf.gateway_calls = 0

RECURSIVE NetShares(_, _)
NetShares(txns, s) ==
    IF txns = <<>> THEN 0
    ELSE LET t == txns[Len(txns)]
         IN NetShares(SubSeq(txns, 1, Len(txns) - 1), s)
            + (IF t.symbol # s THEN 0
               ELSE IF t.transaction_type = "BUY" THEN t.shares
               ELSE -t.shares)

ValueToday(store, hist, today) ==
    LET priced == {s \in Symbols :
                      s \in hist.columns /\ AsOf(hist, today) # NoneVal}
    IN store.cash_balance
       + SumOver([s \in priced |->
                     NetShares(store.transactions, s)
                         * Close(hist, s, AsOf(hist, today))],
                 priced)

(* C9: the last day of the series replays every transaction: its cash is
   the current cash balance, and its value the net shares of every symbol
   at the as-of price of today, plus the current cash balance *)
C9_ReplayRoundTrip ==
    PerfSeries =>
        LET n == Len(perf.dates)
        IN /\ perf.daily_cash[n] = db.cash_balance
           /\ perf.portfolio_values[n] = ValueToday(db, perf.hist, clock)

-----------------------------------------------------------------------------
(* Claims about the ledger as a whole *)

(* C28: when two BUY requests served at the same time are both accepted, the
   cash balance the database ends with is the initial balance less the
   costs of both purchases, and it is not negative *)
BothBought ==
    nops = 2 /\ \A r \in ConcurrentRequests : Accepted(r, "buy")

C28_ConcurrentBuys ==
    BothBought =>
        /\ db.cash_balance
             = InitialCash - (rq[1].transaction_cost + rq[2].transaction_cost)
        /\ db.cash_balance >= 0

Quiescent == \A r \in LedgerRequests : rq[r].pc \in {"idle", "done"}

HoldingMatchesLedger(store, s) ==
    LET net == NetShares(store.transactions, s)
    IN IF net = 0 THEN ~store.holdings[s].present
       ELSE store.holdings[s].present /\ store.holdings[s].shares = net

AppendsOne(r) ==
    /\ Len(db.transactions) = Len(rq[r].before.transactions) + 1
    /\ SubSeq(db.transactions, 1, Len(rq[r].before.transactions))
          = rq[r].before.transactions

(* C26: with no commit failure, between requests the shares of every
   holding are the BUY shares less the SELL shares of the ledger for its
   symbol, with no holding when that is zero, the cash balance is the
   initial cash less the BUY amounts plus the SELL amounts, and a successful
   operation appends exactly one transaction and changes no earlier one *)
C26_LedgerConsistency ==
    Quiescent =>
        /\ \A s \in Symbols : HoldingMatchesLedger(db, s)
        /\ db.cash_balance = InitialCash + NetAmount(db.transactions)
        /\ \A r \in LedgerRequests :
              (Accepted(r, "buy") \/ Accepted(r, "sell")) => AppendsOne(r)

(* two BUYs of a symbol and a SELL of it, with a share left *)
C26_Witness ==
    /\ Quiescent
    /\ Len(db.transactions) = 3
    /\ db.transactions[3].transaction_type = "SELL"
    /\ db.transactions[2].symbol = db.transactions[3].symbol
    /\ db.transactions[1].symbol = db.transactions[3].symbol
    /\ db.holdings[db.transactions[3].symbol].present

(* C27: the cash balance is never negative and every holding has shares
   above zero, in what is persisted and in what a request has pending,
   whatever BUY and SELL requests came one after the other, accepted or
   refused *)
C27_NonNegative ==
    /\ db.cash_balance >= 0
    /\ \A s \in Symbols : db.holdings[s].present => db.holdings[s].shares > 0
    /\ \A r \in LedgerRequests :
          /\ rq[r].session.cash_balance >= 0
          /\ \A s \in Symbols :
                rq[r].session.holdings[s].present
                    => rq[r].session.holdings[s].shares > 0

(* a BUY refused for want of cash after the BUYs that spent it all *)
C27_Witness ==
    /\ db.cash_balance = 0
    /\ \E r \in LedgerRequests :
          rq[r].pc = "done" /\ rq[r].fn = "buy" /\ rq[r].status = 400
             /\ rq[r].reason = "cash"

SummaryDone(r) == rq[r].pc = "done" /\ rq[r].fn = "summary"

(* the price the claim gives a holding: the price of the batch result when
   the symbol is in it, the stored price when it is not *)
ClaimedPrice(r, s) ==
    IF rq[r].data # NoResult /\ s \in rq[r].data.columns
    THEN rq[r].close[s]
    ELSE db.stocks[s]

ClaimedStockValue(r) ==
    SumOver([s \in HeldSymbols(db) |->
                db.holdings[s].shares * ClaimedPrice(r, s)],
            HeldSymbols(db))

CostBasis(store) ==
    FracSumOver([s \in HeldSymbols(store) |->
                    FracTimes(store.holdings[s].shares,
                              store.holdings[s].avg_price)],
                HeldSymbols(store))

(* C24: the current summary has totalPortfolioValue = the sum over the
   holdings of shares times current price, plus the cash, and totalGainLoss
   = that sum less the sum of shares times avg_price, the current price of
   a holding being the price of the batch result when its symbol is in the
   batch result and its stored price when it is not *)
C24_SummaryArithmetic ==
    \A r \in LedgerRequests :
        SummaryDone(r) =>
            /\ rq[r].summary.totalPortfolioValue
                  = ClaimedStockValue(r) + db.cash_balance
            /\ rq[r].summary.totalGainLoss
                  = FracAdd(FracOfInt(ClaimedStockValue(r)),
                            FracTimes(-1, CostBasis(db)))

-----------------------------------------------------------------------------
(* Specifications *)

Init == GatewayInit /\ LedgerInit /\ PerfInit

(* The gateway reads time.time() alone, neither utcnow() nor now(): for its
   requests one zone stands for all *)
GatewayOnlyInit == Init /\ utc_ahead = 0

(* Requests for quotes alone, from two threads *)
QuoteNext ==
    \/ Tick /\ UNCHANGED <<ledgerVars, perfVars>>
    \/ LongPause /\ UNCHANGED <<ledgerVars, perfVars>>
    \/ \E t \in Threads : Wake(t) /\ UNCHANGED <<ledgerVars, perfVars>>
    \/ \E t \in Threads : EnforceRead(t) /\ UNCHANGED <<ledgerVars, perfVars>>
    \/ \E t \in Threads : EnforceSet(t) /\ UNCHANGED <<ledgerVars, perfVars>>
    \/ \E t \in Threads, sym \in Symbols :
          QuoteStart(t, sym) /\ UNCHANGED <<ledgerVars, perfVars>>
    \/ \E t \in Threads : QuoteFunc(t) /\ UNCHANGED <<ledgerVars, perfVars>>
    \/ \E t \in Threads : QuoteCall(t) /\ UNCHANGED <<ledgerVars, perfVars>>
    \/ \E t \in Threads : Return(t) /\ UNCHANGED <<ledgerVars, perfVars>>

SpecQuote == GatewayOnlyInit /\ [][QuoteNext]_vars

(* Requests for quotes and resets of the gateway *)
ResetNext ==
    \/ QuoteNext
    \/ \E t \in Threads : ResetStart(t) /\ UNCHANGED <<ledgerVars, perfVars>>
    \/ \E t \in Threads : ResetRoute(t) /\ UNCHANGED <<ledgerVars, perfVars>>

SpecReset == GatewayOnlyInit /\ [][ResetNext]_vars

(* Requests for historical series alone, one after the other: what a call
   does after its global delay depends on no other call *)
HistThreads == {1}

HistNext ==
    \/ Tick /\ UNCHANGED <<ledgerVars, perfVars>>
    \/ \E t \in HistThreads : Wake(t) /\ UNCHANGED <<ledgerVars, perfVars>>
    \/ \E t \in HistThreads : EnforceRead(t) /\ UNCHANGED <<ledgerVars, perfVars>>
    \/ \E t \in HistThreads : EnforceSet(t) /\ UNCHANGED <<ledgerVars, perfVars>>
    \/ \E t \in HistThreads, syms \in SymbolLists, p \in Periods :
          HistStart(t, syms, p) /\ UNCHANGED <<ledgerVars, perfVars>>
    \/ \E t \in HistThreads : HistBatch(t) /\ UNCHANGED <<ledgerVars, perfVars>>
    \/ \E t \in HistThreads : HistAlternative(t) /\ UNCHANGED <<ledgerVars, perfVars>>
    \/ \E t \in HistThreads : HistIndividualDelay(t) /\ UNCHANGED <<ledgerVars, perfVars>>
    \/ \E t \in HistThreads : HistIndividualDownload(t) /\ UNCHANGED <<ledgerVars, perfVars>>
    \/ \E t \in HistThreads : HistMock(t) /\ UNCHANGED <<ledgerVars, perfVars>>
    \/ \E t \in HistThreads : Return(t) /\ UNCHANGED <<ledgerVars, perfVars>>

SpecHist == GatewayOnlyInit /\ [][HistNext]_vars

(* Calls of a function under retry_with_backoff, one after the other; a
   call that is made returns or raises, and a sleep ends *)
RetryNext ==
    \/ Tick /\ UNCHANGED <<ledgerVars, perfVars>>
    \/ \E t \in HistThreads : WrappedStart(t) /\ UNCHANGED <<ledgerVars, perfVars>>
    \/ \E t \in HistThreads : WrappedCall(t) /\ UNCHANGED <<ledgerVars, perfVars>>
    \/ \E t \in HistThreads : SleepThrough(t) /\ UNCHANGED <<ledgerVars, perfVars>>
    \/ \E t \in HistThreads : Wake(t) /\ UNCHANGED <<ledgerVars, perfVars>>
    \/ \E t \in HistThreads : Return(t) /\ UNCHANGED <<ledgerVars, perfVars>>

SpecRetry ==
    /\ GatewayOnlyInit
    /\ [][RetryNext]_vars
    /\ \A t \in HistThreads :
          /\ WF_vars(WrappedCall(t) /\ UNCHANGED <<ledgerVars, perfVars>>)
          /\ WF_vars(SleepThrough(t) /\ UNCHANGED <<ledgerVars, perfVars>>)
          /\ WF_vars(Wake(t) /\ UNCHANGED <<ledgerVars, perfVars>>)

(* BUY and SELL requests, one after the other *)
LedgerNext ==
    \/ \E r \in LedgerRequests, sym \in Symbols, n \in ShareInputs,
          info \in InfoResults, flushOk \in BOOLEAN :
          BuyStart(r, sym, n, info, flushOk) /\ UNCHANGED <<gwVars, perfVars>>
    \/ \E r \in LedgerRequests, sym \in Symbols, n \in ShareInputs,
          info \in InfoResults, commitOk \in BOOLEAN :
          SellStart(r, sym, n, info, commitOk) /\ UNCHANGED <<gwVars, perfVars>>
    \/ \E r \in LedgerRequests, infos \in [Symbols -> InfoResults],
          commitOk \in BOOLEAN :
          LiveSummary(r, infos, commitOk) /\ UNCHANGED <<gwVars, perfVars>>
    \/ \E r \in LedgerRequests, commitOk \in BOOLEAN :
          BuyCommit(r, commitOk) /\ UNCHANGED <<gwVars, perfVars>>
    \/ \E r \in LedgerRequests : Teardown(r) /\ UNCHANGED <<gwVars, perfVars>>

SpecLedger == Init /\ [][LedgerNext]_vars

(* BUY and SELL requests, one at a time, with no failure of a flush or of a
   commit *)
TradesNext ==
    \/ \E r \in LedgerRequests, sym \in Symbols, n \in ShareInputs,
          info \in InfoResults :
          BuyStart(r, sym, n, info, TRUE) /\ UNCHANGED <<gwVars, perfVars>>
    \/ \E r \in LedgerRequests, sym \in Symbols, n \in ShareInputs,
          info \in InfoResults :
          SellStart(r, sym, n, info, TRUE) /\ UNCHANGED <<gwVars, perfVars>>
    \/ \E r \in LedgerRequests, infos \in [Symbols -> InfoResults] :
          LiveSummary(r, infos, TRUE) /\ UNCHANGED <<gwVars, perfVars>>
    \/ \E r \in LedgerRequests :
          BuyCommit(r, TRUE) /\ UNCHANGED <<gwVars, perfVars>>
    \/ \E r \in LedgerRequests : Teardown(r) /\ UNCHANGED <<gwVars, perfVars>>

SpecTrades == Init /\ [][TradesNext]_vars

(* BUY requests served at the same time, every flush and commit succeeding
   once it has the write lock *)
ConcurrentNext ==
    \/ \E r \in ConcurrentRequests, sym \in Symbols, n \in ShareInputs,
          info \in InfoResults :
          /\ ~WriteLocked(r)
          /\ BuyStart(r, sym, n, info, TRUE)
          /\ UNCHANGED <<gwVars, perfVars>>
    \/ \E r \in ConcurrentRequests, infos \in [Symbols -> InfoResults] :
          LiveSummary(r, infos, TRUE) /\ UNCHANGED <<gwVars, perfVars>>
    \/ \E r \in ConcurrentRequests :
          /\ ~WriteLocked(r)
          /\ BuyCommit(r, TRUE)
          /\ UNCHANGED <<gwVars, perfVars>>
    \/ \E r \in ConcurrentRequests :
          Teardown(r) /\ UNCHANGED <<gwVars, perfVars>>

SpecConcurrent == Init /\ [][ConcurrentNext]_vars

(* The same requests, and requests for the current summary between them *)
SummaryNext ==
    \/ TradesNext
    \/ \E r \in LedgerRequests, c \in SUBSET Symbols,
          close \in [Symbols -> Prices] :
          \E data \in SummaryTables(c) :
             SummaryRoute(r, data, close) /\ UNCHANGED <<gwVars, perfVars>>

SpecSummary == Init /\ [][SummaryNext]_vars

(* BUY and SELL requests whose commits succeed, and requests for the
   performance series, one after the other *)
PerfNext ==
    \/ \E r \in LedgerRequests, sym \in PerfSymbols, n \in PerfShares,
          info \in PerfPrices :
          /\ perf.kind = "none"
          /\ nops < MaxPerfOps
          /\ BuyStart(r, sym, n, info, TRUE)
          /\ UNCHANGED <<gwVars, perfVars>>
    \/ \E r \in LedgerRequests, sym \in PerfSymbols, n \in PerfShares,
          info \in PerfPrices :
          /\ perf.kind = "none"
          /\ nops < MaxPerfOps
          /\ SellStart(r, sym, n, info, TRUE)
          /\ UNCHANGED <<gwVars, perfVars>>
    \/ \E r \in LedgerRequests :
          /\ LiveSummary(r, [s \in Symbols |-> NoneVal], TRUE)
          /\ UNCHANGED <<gwVars, perfVars>>
    \/ \E r \in LedgerRequests :
          BuyCommit(r, TRUE) /\ UNCHANGED <<gwVars, perfVars>>
    \/ \E r \in LedgerRequests :
          Teardown(r) /\ UNCHANGED <<gwVars, perfVars>>
    \/ \E hist \in HistResults :
          Performance(hist) /\ UNCHANGED <<gwVars, ledgerVars>>
    \/ PerfReturn /\ UNCHANGED <<gwVars, ledgerVars>>
    \/ ClockTick /\ UNCHANGED <<gwVars, ledgerVars>>
    \/ \E k \in 1..MaxSkipDays :
          SkipDays(k) /\ UNCHANGED <<gwVars, ledgerVars>>

SpecPerf == Init /\ [][PerfNext]_vars

====
